---- MODULE Spec2Model ----
(***************************************************************************)
(* Sales analysis pipeline of scripts/main_analysis.py: load -> merge ->   *)
(* clean -> EDA -> dashboards/insights -> RFM -> ABC-XYZ -> conclusion.    *)
(*                                                                         *)
(* A data frame is a sequence of rows, a row is a record (column name ->   *)
(* value).  Values are integers: dates are day numbers, names are codes.   *)
(* A missing value (NaN / NaT / None) is Null, a raw cell that cannot be   *)
(* parsed as a date or a number is Junk.  Amounts are whole units, so the  *)
(* sums are exact as they are in float64 for such data.  display() is the  *)
(* notebook builtin and only prints.                                       *)
(***************************************************************************)
EXTENDS Integers, Sequences, FiniteSets, TLC

VARIABLES pc, files, customer_df, product_df, sales_df, territories_df,
          merged_df, cleaned_df, insights, rfm_results, segment_distribution,
          product_sales, abc_xyz_results, artifacts, log

vars == <<pc, files, customer_df, product_df, sales_df, territories_df,
          merged_df, cleaned_df, insights, rfm_results, segment_distribution,
          product_sales, abc_xyz_results, artifacts, log>>

----------------------------------------------------------------------------
(* Values and data frames *)

Null == 0 - 99999
Junk == 0 - 99998

IsNull(v) == v = Null

\* Python's None for a data frame that was never produced
None == [none |-> TRUE, rows |-> <<>>]
DF(rows) == [none |-> FALSE, rows |-> rows]

Range(s) == {s[i] : i \in 1..Len(s)}

RECURSIVE Concat(_)
Concat(ss) == IF ss = <<>> THEN <<>> ELSE Head(ss) \o Concat(Tail(ss))

RECURSIVE SumSet(_, _)
\* sum of f[x] over x in S
SumSet(S, f) ==
  IF S = {} THEN 0
  ELSE LET x == CHOOSE y \in S : TRUE IN f[x] + SumSet(S \ {x}, f)

\* Series.sum(): missing values are skipped
ColSum(rows, col) ==
  SumSet({i \in 1..Len(rows) : ~IsNull(rows[i][col])},
         [i \in 1..Len(rows) |-> rows[i][col]])

\* Series.nunique(): distinct non-missing values
NUnique(rows, col) ==
  Cardinality({rows[i][col] : i \in 1..Len(rows)} \ {Null})

\* Series.max(): missing values are skipped, Null when nothing is left
ColMax(rows, col) ==
  LET S == {rows[i][col] : i \in 1..Len(rows)} \ {Null}
  IN IF S = {} THEN Null ELSE CHOOSE m \in S : \A x \in S : x <= m

\* sorted list of the distinct non-missing values of a column (groupby keys)
RECURSIVE SortedSeq(_)
SortedSeq(S) ==
  IF S = {} THEN <<>>
  ELSE LET m == CHOOSE y \in S : \A x \in S : y <= x
       IN <<m>> \o SortedSeq(S \ {m})

SelectRows(rows, col, v) == SelectSeq(rows, LAMBDA r : r[col] = v)

----------------------------------------------------------------------------
(* Schema: the columns of the four source tables that the pipeline reads *)

SalesCols == {"SalesOrderNumber", "OrderDate", "CustomerKey", "ProductKey",
              "SalesTerritoryKey", "OrderQuantity", "SalesAmount",
              "TotalProductCost"}
CustomerAttrs == {"YearlyIncome"}
ProductAttrs == {"ProductName"}
TerritoryAttrs == {"Region"}

----------------------------------------------------------------------------
(* load_data *)

FileNames == {"customer", "product", "sales", "territories"}

\* pd.read_excel of one file: the table, or an exception
Readable(f) == ~files[f].none

\* the four reads run in order inside one try; any exception yields
\* (None, None, None, None)
load_data ==
  IF \A f \in FileNames : Readable(f)
  THEN [customer |-> files["customer"], product |-> files["product"],
        sales |-> files["sales"], territories |-> files["territories"]]
  ELSE [customer |-> None, product |-> None, sales |-> None,
        territories |-> None]

----------------------------------------------------------------------------
(* merge_data *)

\* an inner join: left rows without a match are dropped
InnerMerge(left, right, key, attrs) ==
  Concat([i \in 1..Len(left) |->
    LET m == SelectRows(right, key, left[i][key])
    IN [j \in 1..Len(m) |-> left[i] @@ [a \in attrs |-> m[j][a]]]])

\* DataFrame.merge(right, on=key, how='left'): every left row in order, once
\* per right row with the same key (in right order), or once with missing
\* right attributes when no right row has the key
LeftMerge(left, right, key, attrs) ==
  Concat([i \in 1..Len(left) |->
    LET m == SelectRows(right, key, left[i][key])
    IN IF m = <<>>
       THEN <<left[i] @@ [a \in attrs |-> Null]>>
       ELSE [j \in 1..Len(m) |-> left[i] @@ [a \in attrs |-> m[j][a]]]])

merge_data(c, p, s, t) ==
  LeftMerge(LeftMerge(LeftMerge(s, c, "CustomerKey", CustomerAttrs),
                      p, "ProductKey", ProductAttrs),
            t, "SalesTerritoryKey", TerritoryAttrs)

----------------------------------------------------------------------------
(* clean_data *)

Columns(rows) == IF rows = <<>> THEN {} ELSE DOMAIN rows[1]

\* only a row equal to the row right before it is dropped
drop_adjacent_duplicates(rows) ==
  LET keep == {i \in 1..Len(rows) : i = 1 \/ rows[i - 1] # rows[i]}
      idx == SortedSeq(keep)
  IN [k \in 1..Len(idx) |-> rows[idx[k]]]

\* DataFrame.drop_duplicates(): a row is kept when no earlier row equals it in
\* every column (missing values compare equal)
drop_duplicates(rows) ==
  LET keep == {i \in 1..Len(rows) : \A j \in 1..(i - 1) : rows[j] # rows[i]}
      idx == SortedSeq(keep)
  IN [k \in 1..Len(idx) |-> rows[idx[k]]]

date_columns == {"OrderDate", "ShipDate", "BirthDate", "DateFirstPurchase",
                 "StartDate"}
numeric_columns == {"YearlyIncome", "TotalChildren", "NumberChildrenAtHome",
                    "NumberCarsOwned", "StandardCost", "ListPrice",
                    "DaysToManufacture", "OrderQuantity", "UnitPrice",
                    "TotalProductCost", "SalesAmount", "TaxAmt"}

\* pd.to_datetime / pd.to_numeric with errors='coerce'
Coerce(v) == IF v = Junk THEN Null ELSE v

\* fillna(placeholder) on the product text columns; the Category fill sits
\* under the SubCategory guard
NotSpecified == 0 - 1
Unknown == 0 - 2
FillNa(r) ==
  [c \in DOMAIN r |->
     IF c = "Color" /\ IsNull(r[c]) THEN NotSpecified
     ELSE IF c \in {"SubCategory", "Category"} /\ "SubCategory" \in DOMAIN r
             /\ IsNull(r[c]) THEN Unknown
     ELSE r[c]]

CoerceTypes(r) ==
  [c \in DOMAIN r |->
     IF c \in date_columns \cup numeric_columns THEN Coerce(r[c]) ELSE r[c]]

\* The calendar of the model: DaysPerMonth days in every month, day 1 is the
\* first day of month 0 (Series.dt.to_period('M'))
DaysPerMonth == 2
PeriodM(d) == IF IsNull(d) THEN Null ELSE (d - 1) \div DaysPerMonth
MonthOfYear(d) == IF IsNull(d) THEN Null ELSE (PeriodM(d) % 12) + 1

\* pd.cut(YearlyIncome, bins=[0, 50000, 80000, 100000, inf]): right-closed bins
IncomeSegment(v) ==
  IF IsNull(v) \/ v <= 0 THEN "NaN"
  ELSE IF v <= 50000 THEN "Low"
  ELSE IF v <= 80000 THEN "Medium"
  ELSE IF v <= 100000 THEN "High"
  ELSE "Very High"

\* Profit / SalesAmount * 100 in float64: a quotient, or nan / inf / -inf
ProfitMargin(profit, sales) ==
  IF IsNull(profit) \/ IsNull(sales) THEN [kind |-> "nan", num |-> 0, den |-> 1]
  ELSE IF sales = 0
       THEN [kind |-> IF profit = 0 THEN "nan"
                      ELSE IF profit > 0 THEN "inf" ELSE "-inf",
             num |-> 0, den |-> 1]
  ELSE [kind |-> "num", num |-> 100 * profit, den |-> sales]

Sub(a, b) == IF IsNull(a) \/ IsNull(b) THEN Null ELSE a - b

\* datetime.now() as a day of the model calendar, and the 365-day year of the
\* Age computation as twelve model months
Now == 100
DaysPerYear == 12 * DaysPerMonth

Derive(r) ==
  LET cols == DOMAIN r
      cal == IF "OrderDate" \in cols
             THEN LET d == r["OrderDate"]
                  IN [OrderYear |-> IF IsNull(d) THEN Null
                                    ELSE PeriodM(d) \div 12,
                      OrderMonth |-> MonthOfYear(d),
                      OrderQuarter |-> IF IsNull(d) THEN Null
                                       ELSE ((MonthOfYear(d) - 1) \div 3) + 1,
                      OrderDayOfWeek |-> IF IsNull(d) THEN Null
                                         ELSE (d - 1) % 7]
             ELSE <<>>
      del == IF {"OrderDate", "ShipDate"} \subseteq cols
             THEN [DeliveryDays |-> Sub(r["ShipDate"], r["OrderDate"])]
             ELSE <<>>
      inc == IF "YearlyIncome" \in cols
             THEN [IncomeSegment |-> IncomeSegment(r["YearlyIncome"])]
             ELSE <<>>
      pro == IF {"SalesAmount", "TotalProductCost"} \subseteq cols
             THEN LET p == Sub(r["SalesAmount"], r["TotalProductCost"])
                  IN [Profit |-> p,
                      ProfitMargin |-> ProfitMargin(p, r["SalesAmount"])]
             ELSE <<>>
      age == IF "BirthDate" \in cols
             THEN [Age |-> IF IsNull(r["BirthDate"]) THEN Null
                           ELSE (Now - r["BirthDate"]) \div DaysPerYear]
             ELSE <<>>
  IN cal @@ del @@ inc @@ age @@ pro @@ r

\* ok is FALSE when df['Category'] raises KeyError under the SubCategory guard
clean_data(rows) ==
  LET d == drop_duplicates(rows)
  IN [ok |-> ~("SubCategory" \in Columns(d) /\ "Category" \notin Columns(d)),
      removed |-> Len(rows) - Len(d),
      df |-> [i \in 1..Len(d) |-> Derive(CoerceTypes(FillNa(d[i])))]]

----------------------------------------------------------------------------
(* perform_rfm_analysis *)

\* ties ranked in reverse order of appearance
rank_last(vals) ==
  [i \in 1..Len(vals) |->
     1 + Cardinality({j \in 1..Len(vals) : vals[j] < vals[i]})
       + Cardinality({j \in (i + 1)..Len(vals) : vals[j] = vals[i]})]

\* Series.rank(method='first'): ties are ranked in order of appearance
rank_first(vals) ==
  [i \in 1..Len(vals) |->
     1 + Cardinality({j \in 1..Len(vals) : vals[j] < vals[i]})
       + Cardinality({j \in 1..(i - 1) : vals[j] = vals[i]})]

\* pd.qcut(vals, 5, labels): the six bin edges are the quantiles 0, 0.2, ..., 1
\* of the non-missing values with linear interpolation, here times 10.  Equal
\* edges raise ValueError ("Bin edges must be unique").  A value gets the label
\* of the bin (edge[k-1], edge[k]] it falls in, the lowest value that of bin 1.
\* np.linspace(0, 1, 6)[3] is 0.6000000000000001: when 0.6 * (n - 1) is whole,
\* the fourth edge is the value at that position plus a rounding-size part of
\* the gap to the next value, which float64 may or may not round away; fp says
\* whether it survives.
QuantileEdge(v, k, fp) ==
  LET n == Len(v)
      p == k * (n - 1)
      lo == p \div 5
      r == p % 5
      a == v[lo + 1]
      b == IF lo + 2 <= n THEN v[lo + 2] ELSE a
  IN 10 * a + 2 * r * (b - a)
     + (IF k = 3 /\ r = 0 /\ b > a /\ fp THEN 1 ELSE 0)

qcut(vals, labels, fp) ==
  LET v == SortSeq(SelectSeq(vals, LAMBDA x : ~IsNull(x)),
                   LAMBDA x, y : x < y)
      edge == [k \in 0..5 |-> QuantileEdge(v, k, fp)]
      bin(x) == IF 10 * x = edge[0] THEN 1
                ELSE Cardinality({k \in 0..5 : edge[k] < 10 * x})
  IN IF v = <<>> THEN [ok |-> FALSE, codes |-> <<>>]
     ELSE IF \E k \in 0..4 : edge[k] = edge[k + 1]
          THEN [ok |-> FALSE, codes |-> <<>>]
     ELSE [ok |-> TRUE,
           codes |-> [i \in 1..Len(vals) |->
                        IF IsNull(vals[i]) THEN Null
                        ELSE labels[bin(vals[i])]]]

\* the first two rules in the other order
assign_segment_swapped(r, f, m) ==
  IF r >= 3 /\ f >= 3 /\ m >= 3 THEN "Loyal Customers"
  ELSE IF r >= 4 /\ f >= 4 /\ m >= 4 THEN "Champions"
  ELSE IF r >= 4 /\ f <= 2 /\ m <= 2 THEN "New Customers"
  ELSE IF r >= 3 /\ f <= 2 /\ m <= 2 THEN "Promising"
  ELSE IF r <= 2 /\ f >= 3 /\ m >= 3 THEN "Need Attention"
  ELSE IF r <= 2 /\ f <= 2 /\ m <= 2 THEN "Hibernating"
  ELSE "Regular"

assign_segment(r, f, m) ==
  IF r >= 4 /\ f >= 4 /\ m >= 4 THEN "Champions"
  ELSE IF r >= 3 /\ f >= 3 /\ m >= 3 THEN "Loyal Customers"
  ELSE IF r >= 4 /\ f <= 2 /\ m <= 2 THEN "New Customers"
  ELSE IF r >= 3 /\ f <= 2 /\ m <= 2 THEN "Promising"
  ELSE IF r <= 2 /\ f >= 3 /\ m >= 3 THEN "Need Attention"
  ELSE IF r <= 2 /\ f <= 2 /\ m <= 2 THEN "Hibernating"
  ELSE "Regular"

\* the snapshot without the added day
snapshot_date_no_day(rows) == ColMax(rows, "OrderDate")

\* snapshot_date = df['OrderDate'].max() + 1 day
snapshot_date(rows) ==
  LET m == ColMax(rows, "OrderDate") IN IF IsNull(m) THEN Null ELSE m + 1

\* groupby('CustomerKey').agg(...): one row per non-missing key, keys ascending
rfm_metrics(rows) ==
  LET keys == SortedSeq({rows[i]["CustomerKey"] : i \in 1..Len(rows)} \ {Null})
  IN [g \in 1..Len(keys) |->
        LET grp == SelectRows(rows, "CustomerKey", keys[g])
        IN [CustomerKey |-> keys[g],
            Recency |-> Sub(snapshot_date(rows), ColMax(grp, "OrderDate")),
            Frequency |-> NUnique(grp, "SalesOrderNumber"),
            Monetary |-> ColSum(grp, "SalesAmount")]]

\* Series.value_counts() of the Segment column
value_counts(rows, col) ==
  [s \in {rows[i][col] : i \in 1..Len(rows)} |->
     Cardinality({i \in 1..Len(rows) : rows[i][col] = s})]

\* the scoring and segmentation of a metrics table (lines 461-503); ok is FALSE
\* when a qcut raises or int() of a missing score raises in assign_segment
rfm_score(m, fp) ==
  LET col(c) == [i \in 1..Len(m) |-> m[i][c]]
      R == qcut(col("Recency"), <<5, 4, 3, 2, 1>>, fp)
      F == qcut(rank_first(col("Frequency")), <<1, 2, 3, 4, 5>>, fp)
      M == qcut(rank_first(col("Monetary")), <<1, 2, 3, 4, 5>>, fp)
  IN IF ~(R.ok /\ F.ok /\ M.ok)
        \/ \E i \in 1..Len(m) : IsNull(R.codes[i])
     THEN [ok |-> FALSE, rfm |-> <<>>, segment_distribution |-> <<>>]
     ELSE LET out == [i \in 1..Len(m) |->
                        [R_Score |-> R.codes[i], F_Score |-> F.codes[i],
                         M_Score |-> M.codes[i],
                         Segment |-> assign_segment(R.codes[i], F.codes[i],
                                                    M.codes[i])] @@ m[i]]
          IN [ok |-> TRUE, rfm |-> out,
              segment_distribution |-> value_counts(out, "Segment")]

perform_rfm_analysis(rows, fp) ==
  IF "OrderDate" \notin Columns(rows)
  THEN [ok |-> FALSE, rfm |-> <<>>, segment_distribution |-> <<>>]
  ELSE rfm_score(rfm_metrics(rows), fp)

----------------------------------------------------------------------------
(* perform_abc_xyz_analysis *)

\* groupby(['ProductKey', 'ProductName']).agg(...).reset_index(): one row per
\* (key, name) pair in which neither is missing, pairs ascending
product_groups(rows) ==
  LET keys == SortedSeq({rows[i]["ProductKey"] : i \in 1..Len(rows)} \ {Null})
      names(k) ==
        SortedSeq({rows[i]["ProductName"] :
                     i \in {j \in 1..Len(rows) : rows[j]["ProductKey"] = k}}
                  \ {Null})
  IN Concat([g \in 1..Len(keys) |->
       [h \in 1..Len(names(keys[g])) |->
          LET grp == SelectSeq(rows, LAMBDA r :
                       r["ProductKey"] = keys[g]
                       /\ r["ProductName"] = names(keys[g])[h])
          IN [ProductKey |-> keys[g],
              ProductName |-> names(keys[g])[h],
              SalesAmount |-> ColSum(grp, "SalesAmount"),
              OrderQuantity |-> ColSum(grp, "OrderQuantity"),
              Profit |-> ColSum(grp, "Profit"),
              SalesOrderNumber |-> NUnique(grp, "SalesOrderNumber")]]])

\* the orders sort_values('SalesAmount', ascending=False) can leave the rows
\* in: descending, rows of equal revenue in any order (the sort is not stable)
SortOrders(g) ==
  {o \in [1..Len(g) -> 1..Len(g)] :
     /\ \A i, j \in 1..Len(g) : i # j => o[i] # o[j]
     /\ \A i \in 1..(Len(g) - 1) :
          g[o[i]]["SalesAmount"] >= g[o[i + 1]]["SalesAmount"]}

\* cumsum() / sum() * 100 in float64, kept as the quotient num / den * 100
\* (x / 0 is -inf, nan or inf)
PctLE(p, k) ==
  IF p.den > 0 THEN 100 * p.num <= k * p.den
  ELSE IF p.den < 0 THEN 100 * p.num >= k * p.den
  ELSE p.num < 0

\* the boundaries taken as exclusive
PctLT(p, k) == PctLE(p, k) /\ ~(p.den # 0 /\ 100 * p.num = k * p.den)
abc_category_exclusive(x) ==
  IF PctLT(x, 80) THEN "A"
  ELSE IF PctLT(x, 95) THEN "B"
  ELSE "C"

abc_category(x) ==
  IF PctLE(x, 80) THEN "A"
  ELSE IF PctLE(x, 95) THEN "B"
  ELSE "C"

\* each product's own share in place of the running total
with_own_share(g, o) ==
  LET sorted == [i \in 1..Len(g) |-> g[o[i]]]
      total == ColSum(sorted, "SalesAmount")
  IN [i \in 1..Len(sorted) |->
        LET pct == [num |-> sorted[i]["SalesAmount"], den |-> total]
        IN [CumulativePercentage |-> pct,
            ABC_Category |-> abc_category(pct)] @@ sorted[i]]

with_cumulative(g, o) ==
  LET sorted == [i \in 1..Len(g) |-> g[o[i]]]
      total == ColSum(sorted, "SalesAmount")
  IN [i \in 1..Len(sorted) |->
        LET pct == [num |-> ColSum(SubSeq(sorted, 1, i), "SalesAmount"),
                    den |-> total]
        IN [CumulativePercentage |-> pct,
            ABC_Category |-> abc_category(pct)] @@ sorted[i]]

\* pivot_table(index='ProductKey', columns=OrderDate.dt.to_period('M'),
\* values='OrderQuantity', aggfunc='sum').fillna(0): rows with a missing key or
\* date are left out of the grouping
pivot_rows(rows) ==
  SelectSeq(rows, LAMBDA r : ~IsNull(r["ProductKey"]) /\ ~IsNull(r["OrderDate"]))
pivot_months(rows) == {PeriodM(r["OrderDate"]) : r \in Range(pivot_rows(rows))}
pivot_index(rows) == {r["ProductKey"] : r \in Range(pivot_rows(rows))}
monthly_product_sales(rows, k, mo) ==
  ColSum(SelectSeq(pivot_rows(rows), LAMBDA r :
           r["ProductKey"] = k /\ PeriodM(r["OrderDate"]) = mo),
         "OrderQuantity")

\* cv = std(axis=1) / (mean(axis=1) + 0.0001) of one pivot row, kept as the
\* number of months, the sum and the sum of squares of the monthly quantities;
\* the sample standard deviation of a single month is nan
EpsInv == 10000
coefficient_of_variation(rows, k) ==
  LET ms == pivot_months(rows)
      x == [mo \in ms |-> monthly_product_sales(rows, k, mo)]
  IN [m |-> Cardinality(ms), S |-> SumSet(ms, x),
      Q |-> SumSet(ms, [mo \in ms |-> x[mo] * x[mo]])]

\* cv <= t / 10 for quantities >= 0:
\* 100 m (m Q - S^2) E^2 <= t^2 (m - 1) (E S + m)^2 with E = 1 / 0.0001
CvLE(cv, t) ==
  IF cv.m < 2 THEN FALSE
  ELSE LET a2 == 100 * cv.m * (cv.m * cv.Q - cv.S * cv.S)
                 - t * t * (cv.m - 1) * cv.S * cv.S
           a1 == 0 - 2 * t * t * (cv.m - 1) * cv.S * cv.m
           a0 == 0 - t * t * (cv.m - 1) * cv.m * cv.m
       IN a2 * EpsInv + a1 <= (0 - a0) \div EpsInv

xyz_category(cv) ==
  IF CvLE(cv, 3) THEN "X"
  ELSE IF CvLE(cv, 6) THEN "Y"
  ELSE "Z"

\* product_sales.merge(cv.rename('CV'), left_on='ProductKey', right_index=True):
\* an inner merge, the rows whose key is in the pivot index, in order
merge_cv(ps, rows) ==
  LET kept == SelectSeq(ps, LAMBDA r : r["ProductKey"] \in pivot_index(rows))
  IN [i \in 1..Len(kept) |->
        LET cv == coefficient_of_variation(rows, kept[i]["ProductKey"])
        IN [CV |-> cv,
            XYZ_Category |-> xyz_category(cv),
            ABC_XYZ |-> <<kept[i]["ABC_Category"], "-", xyz_category(cv)>>]
           @@ kept[i]]

\* the except branch labelling like the else branch of xyz_category
xyz_unknown_as_z(ps) ==
  [i \in 1..Len(ps) |->
     [XYZ_Category |-> "Z",
      ABC_XYZ |-> <<ps[i]["ABC_Category"], "-", "Z">>] @@ ps[i]]

\* the except branch
xyz_unknown(ps) ==
  [i \in 1..Len(ps) |->
     [XYZ_Category |-> "Unknown",
      ABC_XYZ |-> <<ps[i]["ABC_Category"], "-", "Unknown">>] @@ ps[i]]

\* what the try block raises on: df['OrderDate'] (KeyError) when the column is
\* absent, .dt (AttributeError) when it holds anything but dates
xyz_raises(rows) ==
  \/ "OrderDate" \notin Columns(rows)
  \/ \E i \in 1..Len(rows) : rows[i]["OrderDate"] = Junk

abc_columns == {"ProductKey", "ProductName", "SalesAmount", "OrderQuantity",
                "Profit", "SalesOrderNumber"}

\* o is the order the sort leaves the products in; ok is FALSE when the
\* grouping raises KeyError on an absent column
perform_abc_xyz_analysis(rows, o) ==
  IF ~(abc_columns \subseteq Columns(rows))
  THEN [ok |-> FALSE, xyz_failed |-> FALSE, abc |-> <<>>, product_sales |-> <<>>]
  ELSE LET abc == with_cumulative(product_groups(rows), o)
       IN [ok |-> TRUE, xyz_failed |-> xyz_raises(rows), abc |-> abc,
           product_sales |-> IF xyz_raises(rows) THEN xyz_unknown(abc)
                             ELSE merge_cv(abc, rows)]

----------------------------------------------------------------------------
(* extract_insights *)

\* the findings appended, in order; ok is FALSE when idxmax() raises on the
\* empty grouping of a column that holds only missing values
extract_insights(rows) ==
  LET cols == Columns(rows)
      allnull(c) == \A i \in 1..Len(rows) : IsNull(rows[i][c])
      opt(b, xs) == IF b THEN xs ELSE <<>>
  IN [ok |-> /\ ~("Region" \in cols /\ allnull("Region"))
             /\ ~("Category" \in cols /\ allnull("Category")),
      insights |->
        <<"total_revenue", "total_customers", "total_products",
          "avg_order_value">>
        \o opt(\E i \in 1..Len(rows) : ~IsNull(rows[i]["CustomerKey"]),
               <<"top_20_percent">>)
        \o opt("Region" \in cols, <<"best_region">>)
        \o opt("Category" \in cols, <<"best_category">>)
        \o opt("OrderDate" \in cols /\ ~allnull("OrderDate"),
               <<"best_month", "worst_month">>)
        \o opt("Profit" \in cols, <<"total_profit", "avg_profit_margin">>)]

----------------------------------------------------------------------------
(* main: one action per stage, pc is the stage about to run *)

Say(tag, n) == Append(log, [tag |-> tag, n |-> n])

\* the check left out
load_never_failed(df) == FALSE

\* line 614: if customer_df is None: return
load_failed(df) == df.none

LoadData ==
  /\ pc = "load"
  /\ LET r == load_data
     IN /\ customer_df' = r.customer
        /\ product_df' = r.product
        /\ sales_df' = r.sales
        /\ territories_df' = r.territories
        /\ log' = IF r.customer.none THEN Say("load_error", 0)
                  ELSE Say("loaded", Len(r.sales.rows))
        /\ pc' = IF load_failed(r.customer) THEN "returned" ELSE "merge"
  /\ UNCHANGED <<files, merged_df, cleaned_df, insights, rfm_results,
                 segment_distribution, product_sales, abc_xyz_results,
                 artifacts>>

MergeData ==
  /\ pc = "merge"
  /\ merged_df' = DF(merge_data(customer_df.rows, product_df.rows,
                                sales_df.rows, territories_df.rows))
  /\ log' = Say("merged", Len(merged_df'.rows))
  /\ pc' = "clean"
  /\ UNCHANGED <<files, customer_df, product_df, sales_df, territories_df,
                 cleaned_df, insights, rfm_results, segment_distribution,
                 product_sales, abc_xyz_results, artifacts>>

CleanData ==
  /\ pc = "clean"
  /\ LET r == clean_data(merged_df.rows)
     IN IF r.ok
        THEN /\ cleaned_df' = DF(r.df)
             /\ log' = Say("duplicates_removed", r.removed)
             /\ pc' = "eda"
        ELSE /\ pc' = "raised"
             /\ log' = Say("duplicates_removed", r.removed)
             /\ UNCHANGED cleaned_df
  /\ UNCHANGED <<files, customer_df, product_df, sales_df, territories_df,
                 merged_df, insights, rfm_results, segment_distribution,
                 product_sales, abc_xyz_results, artifacts>>

\* perform_eda prints statistics and returns the frame it was given
PerformEda ==
  /\ pc = "eda"
  /\ pc' = "eda_visualizations"
  /\ UNCHANGED <<files, customer_df, product_df, sales_df, territories_df,
                 merged_df, cleaned_df, insights, rfm_results,
                 segment_distribution, product_sales, abc_xyz_results,
                 artifacts, log>>

CreateEdaVisualizations ==
  /\ pc = "eda_visualizations"
  /\ artifacts' = artifacts \cup {"eda_analysis.png"}
  /\ pc' = "save"
  /\ UNCHANGED <<files, customer_df, product_df, sales_df, territories_df,
                 merged_df, cleaned_df, insights, rfm_results,
                 segment_distribution, product_sales, abc_xyz_results, log>>

SaveCleanedData ==
  /\ pc = "save"
  /\ artifacts' = artifacts \cup {"cleaned_sales_data.csv"}
  /\ pc' = "dashboards"
  /\ UNCHANGED <<files, customer_df, product_df, sales_df, territories_df,
                 merged_df, cleaned_df, insights, rfm_results,
                 segment_distribution, product_sales, abc_xyz_results, log>>

CreateDashboards ==
  /\ pc = "dashboards"
  /\ pc' = "insights"
  /\ UNCHANGED <<files, customer_df, product_df, sales_df, territories_df,
                 merged_df, cleaned_df, insights, rfm_results,
                 segment_distribution, product_sales, abc_xyz_results,
                 artifacts, log>>

ExtractInsights ==
  /\ pc = "insights"
  /\ LET r == extract_insights(cleaned_df.rows)
     IN IF r.ok
        THEN insights' = r.insights /\ pc' = "rfm"
        ELSE pc' = "raised" /\ UNCHANGED insights
  /\ UNCHANGED <<files, customer_df, product_df, sales_df, territories_df,
                 merged_df, cleaned_df, rfm_results, segment_distribution,
                 product_sales, abc_xyz_results, artifacts, log>>

PerformRfmAnalysis ==
  /\ pc = "rfm"
  /\ \E fp \in BOOLEAN :
       LET r == perform_rfm_analysis(cleaned_df.rows, fp)
       IN IF r.ok
          THEN /\ rfm_results' = DF(r.rfm)
               /\ segment_distribution' = r.segment_distribution
               /\ pc' = "abc_xyz"
          ELSE /\ pc' = "raised"
               /\ UNCHANGED <<rfm_results, segment_distribution>>
  /\ UNCHANGED <<files, customer_df, product_df, sales_df, territories_df,
                 merged_df, cleaned_df, insights, product_sales,
                 abc_xyz_results, artifacts, log>>

PerformAbcXyzAnalysis ==
  /\ pc = "abc_xyz"
  /\ IF abc_columns \subseteq Columns(cleaned_df.rows)
     THEN \E o \in SortOrders(product_groups(cleaned_df.rows)) :
            LET r == perform_abc_xyz_analysis(cleaned_df.rows, o)
            IN /\ product_sales' = DF(r.abc)
               /\ abc_xyz_results' = DF(r.product_sales)
               /\ log' = IF r.xyz_failed THEN Say("xyz_failed", 0) ELSE log
               /\ pc' = "conclusion"
     ELSE /\ pc' = "raised"
          /\ UNCHANGED <<product_sales, abc_xyz_results, log>>
  /\ UNCHANGED <<files, customer_df, product_df, sales_df, territories_df,
                 merged_df, cleaned_df, insights, rfm_results,
                 segment_distribution, artifacts>>

\* generate_final_conclusion reads insights[0] and insights[3], prints the
\* conclusion and writes the report
GenerateFinalConclusion ==
  /\ pc = "conclusion"
  /\ IF Len(insights) >= 4
     THEN /\ artifacts' = artifacts \cup {"analysis_final_report.txt"}
          /\ log' = Say("report_saved", 0)
          /\ pc' = "done"
     ELSE /\ pc' = "raised"
          /\ UNCHANGED <<artifacts, log>>
  /\ UNCHANGED <<files, customer_df, product_df, sales_df, territories_df,
                 merged_df, cleaned_df, insights, rfm_results,
                 segment_distribution, product_sales, abc_xyz_results>>

Next ==
  \/ LoadData
  \/ MergeData
  \/ CleanData
  \/ PerformEda
  \/ CreateEdaVisualizations
  \/ SaveCleanedData
  \/ CreateDashboards
  \/ ExtractInsights
  \/ PerformRfmAnalysis
  \/ PerformAbcXyzAnalysis
  \/ GenerateFinalConclusion

----------------------------------------------------------------------------
(* perform_rfm_analysis, lines 470-488 alone: the Segment column of a scored
   table *)

AssignSegment ==
  /\ pc = "assign_segment"
  /\ rfm_results' =
       DF([i \in 1..Len(rfm_results.rows) |->
             [Segment |-> assign_segment(rfm_results.rows[i]["R_Score"],
                                         rfm_results.rows[i]["F_Score"],
                                         rfm_results.rows[i]["M_Score"])]
             @@ rfm_results.rows[i]])
  /\ segment_distribution' = value_counts(rfm_results'.rows, "Segment")
  /\ pc' = "segmented"
  /\ UNCHANGED <<files, customer_df, product_df, sales_df, territories_df,
                 merged_df, cleaned_df, insights, product_sales,
                 abc_xyz_results, artifacts, log>>

----------------------------------------------------------------------------
(* Inputs *)

MaxRows == 3
MaxDim == 2
MaxSales == 2
Population == 5

SeqsUpTo(S, n) == UNION {[1..k -> S] : k \in 0..n}
NonEmptySeqs(S, n) == UNION {[1..k -> S] : k \in 1..n}

SaleRow(on, d, c, p, q, a) ==
  [SalesOrderNumber |-> on, OrderDate |-> d, CustomerKey |-> c,
   ProductKey |-> p, SalesTerritoryKey |-> 1, OrderQuantity |-> q,
   SalesAmount |-> a, TotalProductCost |-> 60]

CustomerRow(k, inc) == [CustomerKey |-> k, YearlyIncome |-> inc]
ProductRow(k, name) == [ProductKey |-> k, ProductName |-> name]
TerritoryRow(k, reg) == [SalesTerritoryKey |-> k, Region |-> reg]

\* dimension tables with one row per key
Customers == [k \in 1..Population |-> CustomerRow(k, 40000 + 10000 * k)]
Products == <<ProductRow(1, 1), ProductRow(2, 2)>>
Territories == <<TerritoryRow(1, 1)>>

Enriched(sales) == clean_data(merge_data(Customers, Products, sales,
                                         Territories)).df

Start(p, fs, c, pr, s, t, m, cl, r) ==
  /\ pc = p /\ files = fs
  /\ customer_df = c /\ product_df = pr /\ sales_df = s /\ territories_df = t
  /\ merged_df = m /\ cleaned_df = cl /\ rfm_results = r
  /\ insights = <<>> /\ segment_distribution = <<>>
  /\ product_sales = None /\ abc_xyz_results = None
  /\ artifacts = {} /\ log = <<>>

NoFiles == [f \in FileNames |-> None]

(* main() from the start: each source file is a table or cannot be read *)
MainSales(n) ==
  NonEmptySeqs({SaleRow(on, d, c, p, 1, 100) :
                  on \in {1, 2}, d \in {1, 2}, c \in {1, 2}, p \in {1, 2}},
               n)

Init ==
  \E c \in {None, DF(Customers)}, p \in {None, DF(Products)},
     t \in {None, DF(Territories)},
     s \in {None} \cup {DF(x) : x \in MainSales(MaxSales)} :
    Start("load",
          [f \in FileNames |->
             CASE f = "customer" -> c [] f = "product" -> p
               [] f = "sales" -> s [] f = "territories" -> t],
          None, None, None, None, None, None, None)

Spec == Init /\ [][Next]_vars

(* merge_data on loaded tables, keys repeated or absent in the dimensions *)
InitMerge ==
  \E c \in SeqsUpTo({CustomerRow(k, inc) : k \in {1, 2},
                                           inc \in {40000, 90000}}, MaxDim),
     p \in SeqsUpTo({ProductRow(k, k) : k \in {1, 2}}, MaxDim),
     t \in SeqsUpTo({TerritoryRow(1, 1)}, MaxDim),
     s \in NonEmptySeqs({SaleRow(1, 1, ck, pk, 1, 100) :
                           ck \in {1, 2}, pk \in {1, 2}}, MaxSales) :
    Start("merge", NoFiles, DF(c), DF(p), DF(s), DF(t), None, None, None)

SpecMerge == InitMerge /\ [][MergeData]_vars

\* a sales row with the given revenue and cost
ProfitRow(a, k) == [SaleRow(1, 1, 1, 1, 1, a) EXCEPT !["TotalProductCost"] = k]

(* clean_data on a merged frame: raw dates, unmatched products, repeated rows;
   or rows whose revenue and cost are zero, positive or unparseable *)
InitClean ==
  \E s \in SeqsUpTo({SaleRow(1, d, c, p, 1, 100) :
                       d \in {1, Null, Junk}, c \in {1, 2}, p \in {1, 3}},
                    MaxRows)
            \cup NonEmptySeqs({ProfitRow(a, k) : a \in {0, 100, Junk},
                                                k \in {0, 60}}, MaxRows) :
    Start("clean", NoFiles, DF(Customers), DF(Products), DF(s),
          DF(Territories),
          DF(merge_data(Customers, Products, s, Territories)), None, None)

SpecClean == InitClean /\ [][CleanData]_vars

(* clean_data on frames holding any non-empty subset of the columns it
   imputes or derives from: two records, the second with the product text
   fields missing *)
GuardedColumns ==
  {"Color", "SubCategory", "Category", "OrderDate", "ShipDate",
   "YearlyIncome", "BirthDate", "SalesAmount", "TotalProductCost"}

FullRow(text) ==
  [Color |-> text, SubCategory |-> text, Category |-> text,
   OrderDate |-> 1, ShipDate |-> 3, YearlyIncome |-> 60000, BirthDate |-> 1,
   SalesAmount |-> 100, TotalProductCost |-> 60]

Restrict(r, cs) == [c \in cs |-> r[c]]

InitColumns ==
  \E cs \in (SUBSET GuardedColumns) \ {{}} :
    Start("clean", NoFiles, None, None, None, None,
          DF(<<Restrict(FullRow(7), cs), Restrict(FullRow(Null), cs)>>),
          None, None)

SpecColumns == InitColumns /\ [][CleanData]_vars

(* perform_rfm_analysis on an enriched frame: a few orders (one date
   per order number) of up to three customers, or one order for each of Population customers *)
FewOrders(n) ==
  NonEmptySeqs({SaleRow(IF IsNull(d) THEN 3 ELSE d, d, c, 1, 1, a) :
                  d \in {1, 2, Null}, c \in {1, 2, 3},
                  a \in {100, 500, 1000}}, n)

AmountPatterns(n) ==
  {[i \in 1..n |-> 100], [i \in 1..n |-> 100 * i],
   [i \in 1..n |-> 100 * (n + 1 - i)]}

OneOrderEach(n) ==
  {[i \in 1..n |-> SaleRow(i, d[i], i, 1, 1, a[i])] :
     d \in [1..n -> 1..4], a \in AmountPatterns(n)}

InitRFM ==
  \E s \in FewOrders(MaxRows) \cup OneOrderEach(Population) :
    Start("rfm", NoFiles, DF(Customers), DF(Products), DF(s), DF(Territories),
          DF(merge_data(Customers, Products, s, Territories)),
          DF(Enriched(s)), None)

SpecRFM == InitRFM /\ [][PerformRfmAnalysis]_vars

(* assign_segment on scored rows *)
InitSegment ==
  \E t \in NonEmptySeqs([R_Score : 1..5, F_Score : 1..5, M_Score : 1..5], 1) :
    Start("assign_segment", NoFiles, None, None, None, None, None, None, DF(t))

SpecSegment == InitSegment /\ [][AssignSegment]_vars

(* perform_abc_xyz_analysis on an enriched frame: one order per product with
   revenues around the category boundaries, or a few orders of two listed
   products and an unlisted one over two months; and the same frames as a
   caller passes them without the OrderDate column, or with the column left
   unconverted *)
Revenues == {0 - 50, 0, 100, 300, 600, 1900, 1901, 1999, 2000, 8000, 8001}

OneOrderPerProduct(m) ==
  UNION {{[i \in 1..n |-> SaleRow(i, d[i], 1, i, 1, a[i])] :
            d \in {[i \in 1..n |-> 1], [i \in 1..n |-> IF i = 1 THEN 1 ELSE 3]},
            a \in [1..n -> Revenues]} :
         n \in 1..m}

FewProductOrders(n) ==
  NonEmptySeqs({SaleRow(1, d, 1, p, q, 100) :
                  d \in {1, 3, Null}, p \in {1, 2, 3}, q \in {1, 2}}, n)

DropColumn(rows, c) ==
  [i \in 1..Len(rows) |-> [x \in (DOMAIN rows[i]) \ {c} |-> rows[i][x]]]
SetColumn(rows, c, v) ==
  [i \in 1..Len(rows) |-> [x \in DOMAIN rows[i] |->
                             IF x = c THEN v ELSE rows[i][x]]]

ProductsABC == [k \in 1..MaxRows |-> ProductRow(k, k)]
MergedABC(s) == merge_data(Customers, ProductsABC, s, Territories)

InitABC ==
  \/ \E s \in OneOrderPerProduct(MaxRows) :
       \E e \in {clean_data(MergedABC(s)).df,
                 clean_data(DropColumn(MergedABC(s), "OrderDate")).df,
                 SetColumn(clean_data(MergedABC(s)).df, "OrderDate", Junk)} :
         Start("abc_xyz", NoFiles, DF(Customers), DF(ProductsABC), DF(s),
               DF(Territories), DF(MergedABC(s)), DF(e), None)
  \/ \E s \in FewProductOrders(MaxRows) :
       Start("abc_xyz", NoFiles, DF(Customers), DF(Products), DF(s),
             DF(Territories),
             DF(merge_data(Customers, Products, s, Territories)),
             DF(Enriched(s)), None)

SpecABC == InitABC /\ [][PerformAbcXyzAnalysis]_vars

----------------------------------------------------------------------------
(* Claims *)

\* The decision table of the RFM segments as an ordered list of rules: each
\* rule bounds the three scores from below and above
SegmentRules ==
  <<[lo |-> <<4, 4, 4>>, hi |-> <<5, 5, 5>>, label |-> "Champions"],
    [lo |-> <<3, 3, 3>>, hi |-> <<5, 5, 5>>, label |-> "Loyal Customers"],
    [lo |-> <<4, 1, 1>>, hi |-> <<5, 2, 2>>, label |-> "New Customers"],
    [lo |-> <<3, 1, 1>>, hi |-> <<5, 2, 2>>, label |-> "Promising"],
    [lo |-> <<1, 3, 3>>, hi |-> <<2, 5, 5>>, label |-> "Need Attention"],
    [lo |-> <<1, 1, 1>>, hi |-> <<2, 2, 2>>, label |-> "Hibernating"]>>

RuleMatches(k, t) ==
  \A x \in 1..3 : SegmentRules[k].lo[x] <= t[x] /\ t[x] <= SegmentRules[k].hi[x]

FirstMatchLabel(t) ==
  LET hits == {k \in 1..Len(SegmentRules) : RuleMatches(k, t)}
  IN IF hits = {} THEN "Regular"
     ELSE SegmentRules[CHOOSE k \in hits : \A j \in hits : k <= j].label

Scores(row) == <<row["R_Score"], row["F_Score"], row["M_Score"]>>

\* C1: every scored row gets the label of the first rule of the ordered
\* decision table that its (R, F, M) triple matches, 'Regular' when none
\* matches; so each row has exactly one of the seven labels.
C1_FirstMatchingRule ==
  pc = "segmented" =>
    \A i \in 1..Len(rfm_results.rows) :
      /\ rfm_results.rows[i]["Segment"]
           = FirstMatchLabel(Scores(rfm_results.rows[i]))
      /\ rfm_results.rows[i]["Segment"]
           \in {SegmentRules[k].label : k \in 1..Len(SegmentRules)}
               \cup {"Regular"}

\* a triple that two rules match has been labelled by the earlier one
C1_Witness ==
  /\ pc = "segmented"
  /\ \E i \in 1..Len(rfm_results.rows) :
       /\ RuleMatches(1, Scores(rfm_results.rows[i]))
       /\ RuleMatches(2, Scores(rfm_results.rows[i]))
       /\ rfm_results.rows[i]["Segment"] = "Champions"

GroupSize(rows, col, v) ==
  Cardinality({i \in 1..Len(rows) : rows[i][col] = v})

Balanced(rows, col) ==
  \A a, b \in 1..5 : GroupSize(rows, col, a) - GroupSize(rows, col, b) <= 1

\* C2: in every result of perform_rfm_analysis the five score groups of each
\* of R_Score, F_Score and M_Score differ in size by at most 1, ties in the
\* metric included, and the per-segment counts add up to the customer count.
C2_BalancedQuintiles ==
  pc = "abc_xyz" =>
    /\ Balanced(rfm_results.rows, "R_Score")
    /\ Balanced(rfm_results.rows, "F_Score")
    /\ Balanced(rfm_results.rows, "M_Score")
    /\ SumSet(DOMAIN segment_distribution, segment_distribution)
         = Len(rfm_results.rows)

OrderDatesOf(k) ==
  {cleaned_df.rows[i]["OrderDate"] :
     i \in {j \in 1..Len(cleaned_df.rows) :
              cleaned_df.rows[j]["CustomerKey"] = k}} \ {Null}
AllOrderDates ==
  {cleaned_df.rows[i]["OrderDate"] : i \in 1..Len(cleaned_df.rows)} \ {Null}
IsLatest(d, S) == d \in S /\ \A x \in S : x <= d

\* C9: in every result of perform_rfm_analysis each profile's Recency is the
\* number of days from the customer's latest order date to the day after the
\* latest order date of the whole frame; so Recency >= 0 for every profile, and
\* it is exactly 1 for a customer who holds the latest order.
C9_RecencyFromSnapshot ==
  pc = "abc_xyz" =>
    \A i \in 1..Len(rfm_results.rows) :
      LET row == rfm_results.rows[i]
          own == OrderDatesOf(row["CustomerKey"])
      IN /\ row["Recency"] >= 0
         /\ \E g \in AllOrderDates, d \in own :
              /\ IsLatest(g, AllOrderDates)
              /\ IsLatest(d, own)
              /\ row["Recency"] = (g + 1) - d
              /\ (d = g => row["Recency"] = 1)

\* a result with a customer of several order dates who holds the latest
\* order, and an older customer
C9_Witness ==
  /\ pc = "abc_xyz"
  /\ \E i, j \in 1..Len(rfm_results.rows) :
       /\ rfm_results.rows[i]["Recency"] = 1
       /\ Cardinality(OrderDatesOf(rfm_results.rows[i]["CustomerKey"])) > 1
       /\ rfm_results.rows[j]["Recency"] > 1

\* the three customers of the example: Monetary 100, 500 and 1000, equal
\* Recency, equal Frequency
ThreeCustomerExample ==
  LET m == rfm_metrics(cleaned_df.rows)
  IN /\ Len(m) = 3
     /\ {m[i]["Monetary"] : i \in 1..3} = {100, 500, 1000}
     /\ \A i, j \in 1..3 : /\ m[i]["Recency"] = m[j]["Recency"]
                           /\ ~IsNull(m[i]["Recency"])
                           /\ m[i]["Frequency"] = m[j]["Frequency"]

\* C10: on the three-customer example perform_rfm_analysis returns three
\* profiles and the customer with Monetary 1000 has the highest M_Score; and in
\* any result the customer with the strictly largest Monetary has an M_Score
\* no lower than anyone's.
C10_TopMonetaryTopScore ==
  /\ (ThreeCustomerExample /\ pc # "rfm") =>
        /\ pc = "abc_xyz"
        /\ Len(rfm_results.rows) = 3
  /\ pc = "abc_xyz" =>
       \A i, j \in 1..Len(rfm_results.rows) :
         (\A k \in 1..Len(rfm_results.rows) :
            k # i => rfm_results.rows[k]["Monetary"]
                       < rfm_results.rows[i]["Monetary"])
         => rfm_results.rows[i]["M_Score"] >= rfm_results.rows[j]["M_Score"]

\* percentage comparisons on the quotient num / den * 100 of a result row
CumTo(rows, i) == ColSum(SubSeq(rows, 1, i), "SalesAmount")

\* C3: each product's ABC category follows from the running cumulative share
\* that includes the product, boundaries inclusive: share <= 80 is 'A',
\* 80 < share <= 95 is 'B', share > 95 is 'C'; revenues 600, 300, 100 give
\* shares 60, 90, 100 and categories A, B, C; a product at exactly 80 percent
\* is 'A', one at 80.01 percent is 'B'.
C3_AbcBoundaries ==
  pc = "conclusion" =>
    LET ps == product_sales.rows
        total == ColSum(ps, "SalesAmount")
    IN /\ \A i \in 1..Len(ps) :
            LET cum == CumTo(ps, i)
                cat == ps[i]["ABC_Category"]
            IN /\ total > 0 =>
                    /\ (100 * cum <= 80 * total) => cat = "A"
                    /\ (80 * total < 100 * cum /\ 100 * cum <= 95 * total)
                         => cat = "B"
                    /\ (100 * cum > 95 * total) => cat = "C"
               /\ total < 0 =>
                    /\ (100 * cum >= 80 * total) => cat = "A"
                    /\ (80 * total > 100 * cum /\ 100 * cum >= 95 * total)
                         => cat = "B"
                    /\ (100 * cum < 95 * total) => cat = "C"
       /\ [i \in 1..Len(ps) |-> ps[i]["SalesAmount"]] = <<8000, 2000>>
            => ps[1]["ABC_Category"] = "A"
       /\ [i \in 1..Len(ps) |-> ps[i]["SalesAmount"]] = <<8001, 1999>>
            => ps[1]["ABC_Category"] = "B"
       /\ [i \in 1..Len(ps) |-> ps[i]["SalesAmount"]] = <<600, 300, 100>>
            => /\ [i \in 1..3 |-> ps[i]["ABC_Category"]] = <<"A", "B", "C">>
               /\ \A i \in 1..3 :
                    100 * ps[i]["CumulativePercentage"].num
                      = <<60, 90, 100>>[i] * ps[i]["CumulativePercentage"].den

\* a product at exactly 80 percent, categorised 'A'
C3_Witness ==
  /\ pc = "conclusion"
  /\ Len(product_sales.rows) = 2
  /\ CumTo(product_sales.rows, 1) = 8000
  /\ CumTo(product_sales.rows, 2) = 10000
  /\ product_sales.rows[1]["ABC_Category"] = "A"

\* p <= q for two float shares of one table (same denominator)
ShareLE(p, q) ==
  IF p.den > 0 THEN p.num <= q.num
  ELSE IF p.den < 0 THEN p.num >= q.num
  ELSE p.num # 0 /\ q.num # 0 /\ (p.num < 0 \/ q.num > 0)

CategoryRank(c) == CASE c = "A" -> 1 [] c = "B" -> 2 [] c = "C" -> 3

SortedAndMonotone(rows) ==
  \A i, j \in 1..Len(rows) :
    i < j =>
      /\ rows[i]["SalesAmount"] >= rows[j]["SalesAmount"]
      /\ ShareLE(rows[i]["CumulativePercentage"],
                 rows[j]["CumulativePercentage"])
      /\ CategoryRank(rows[i]["ABC_Category"])
           <= CategoryRank(rows[j]["ABC_Category"])

\* C4 as stated: for any input the result is in descending revenue order and
\* the cumulative share never decreases along it, nor does the category move
\* back.
C4_MonotoneForAnyInput ==
  pc = "conclusion" => SortedAndMonotone(abc_xyz_results.rows)

NonNegativeRevenue(rows) ==
  /\ \A i \in 1..Len(rows) : rows[i]["SalesAmount"] >= 0
  /\ ColSum(rows, "SalesAmount") > 0

\* C4 amended: the same, for input in which no product's revenue total is
\* negative and the overall total is positive.
C4_MonotoneNonNegative ==
  (pc = "conclusion" /\ NonNegativeRevenue(product_sales.rows))
    => SortedAndMonotone(abc_xyz_results.rows)

\* three products on the way from A through B to C
C4_Witness ==
  /\ pc = "conclusion"
  /\ NonNegativeRevenue(product_sales.rows)
  /\ [i \in 1..Len(abc_xyz_results.rows) |->
        abc_xyz_results.rows[i]["ABC_Category"]] = <<"A", "B", "C">>

XyzFailed == \E i \in 1..Len(log) : log[i].tag = "xyz_failed"

AbcPart(rows) ==
  [i \in 1..Len(rows) |->
     <<rows[i]["ProductKey"], rows[i]["SalesAmount"],
       rows[i]["CumulativePercentage"], rows[i]["ABC_Category"]>>]

DegradedToUnknown ==
  /\ \A i \in 1..Len(abc_xyz_results.rows) :
       /\ abc_xyz_results.rows[i]["XYZ_Category"] = "Unknown"
       /\ abc_xyz_results.rows[i]["ABC_XYZ"]
            = <<abc_xyz_results.rows[i]["ABC_Category"], "-", "Unknown">>
  /\ AbcPart(abc_xyz_results.rows) = AbcPart(product_sales.rows)

SingleMonth ==
  /\ "OrderDate" \in Columns(cleaned_df.rows)
  /\ Cardinality({PeriodM(cleaned_df.rows[i]["OrderDate"]) :
                    i \in {j \in 1..Len(cleaned_df.rows) :
                             cleaned_df.rows[j]["OrderDate"] \notin {Null, Junk}}})
       = 1
  /\ \A i \in 1..Len(cleaned_df.rows) : cleaned_df.rows[i]["OrderDate"] # Junk

LoadFails == \E f \in FileNames : files[f].none

\* C6: when any of the four source files cannot be read, main reports the
\* cause and returns right after the load stage: no later stage runs and no
\* output artifact is written.
C6_LoadFailureAborts ==
  LoadFails =>
    /\ pc \in {"load", "returned"}
    /\ artifacts = {}
    /\ merged_df = None /\ cleaned_df = None /\ insights = <<>>
    /\ rfm_results = None /\ abc_xyz_results = None
    /\ pc = "returned" => log = <<[tag |-> "load_error", n |-> 0]>>

\* main has returned after a failure in a file other than the first one read
C6_Witness ==
  /\ pc = "returned"
  /\ ~files["customer"].none
  /\ files["territories"].none
  /\ log = <<[tag |-> "load_error", n |-> 0]>>

KeysOf(s) == <<s["CustomerKey"], s["ProductKey"], s["SalesTerritoryKey"]>>

\* the attributes a record must carry for its sales row: those of the
\* dimension row with the key, missing when there is none
AttrsFrom(right, key, attrs, s, rec) ==
  IF \E j \in 1..Len(right) : right[j][key] = s[key]
  THEN \E j \in 1..Len(right) :
         /\ right[j][key] = s[key]
         /\ \A a \in attrs : rec[a] = right[j][a]
  ELSE \A a \in attrs : IsNull(rec[a])

OneRecordPerSalesRow ==
  /\ Len(merged_df.rows) = Len(sales_df.rows)
  /\ \A i \in 1..Len(sales_df.rows) :
       LET s == sales_df.rows[i]
           rec == merged_df.rows[i]
       IN /\ \A c \in SalesCols : rec[c] = s[c]
          /\ AttrsFrom(customer_df.rows, "CustomerKey", CustomerAttrs, s, rec)
          /\ AttrsFrom(product_df.rows, "ProductKey", ProductAttrs, s, rec)
          /\ AttrsFrom(territories_df.rows, "SalesTerritoryKey",
                       TerritoryAttrs, s, rec)

\* C7 as stated: for any four tables merge_data returns exactly one record per
\* sales row, with the row's keys, the attributes of the matching dimension
\* rows, and missing attributes where a key has no match.
C7_OneRecordForAnyTables ==
  pc = "clean" => OneRecordPerSalesRow

UniqueKeys(rows, key) ==
  \A i, j \in 1..Len(rows) : rows[i][key] = rows[j][key] => i = j

\* C7 amended: the same for tables in which no key occurs in more than one row
\* of a dimension table; in any case no sales row is dropped.
C7_OneRecordWhenKeysUnique ==
  pc = "clean" =>
    /\ (/\ UniqueKeys(customer_df.rows, "CustomerKey")
        /\ UniqueKeys(product_df.rows, "ProductKey")
        /\ UniqueKeys(territories_df.rows, "SalesTerritoryKey"))
         => OneRecordPerSalesRow
    /\ \A i \in 1..Len(sales_df.rows) :
         \E k \in 1..Len(merged_df.rows) :
           /\ \A c \in SalesCols : merged_df.rows[k][c] = sales_df.rows[i][c]
           /\ (~\E j \in 1..Len(product_df.rows) :
                  product_df.rows[j]["ProductKey"]
                    = sales_df.rows[i]["ProductKey"])
                => IsNull(merged_df.rows[k]["ProductName"])

\* a merge with unique keys, one sales row matched and one without a product
C7_Witness ==
  /\ pc = "clean"
  /\ UniqueKeys(customer_df.rows, "CustomerKey")
  /\ UniqueKeys(product_df.rows, "ProductKey")
  /\ UniqueKeys(territories_df.rows, "SalesTerritoryKey")
  /\ Len(merged_df.rows) = 2
  /\ ~IsNull(merged_df.rows[1]["ProductName"])
  /\ IsNull(merged_df.rows[2]["ProductName"])
  /\ ~IsNull(merged_df.rows[2]["YearlyIncome"])

NoTwoEqual(rows) == \A i, j \in 1..Len(rows) : rows[i] = rows[j] => i = j

RemovedCount ==
  LET at == {i \in 1..Len(log) : log[i].tag = "duplicates_removed"}
  IN IF at = {} THEN Null ELSE log[CHOOSE i \in at : TRUE].n

\* C8: the output of the deduplication in clean_data has no two rows equal in
\* all fields and holds every distinct row of the input; deduplicating it
\* again removes nothing and leaves it unchanged; the reported count is the
\* number of rows removed.
C8_DeduplicationIdempotent ==
  pc = "eda" =>
    LET d == drop_duplicates(merged_df.rows)
    IN /\ NoTwoEqual(d)
       /\ Range(d) = Range(merged_df.rows)
       /\ drop_duplicates(d) = d
       /\ clean_data(d).removed = 0
       /\ Len(cleaned_df.rows) = Cardinality(Range(merged_df.rows))
       /\ RemovedCount = Len(merged_df.rows) - Len(cleaned_df.rows)

\* a frame whose first and last rows are equal, with another row in between
C8_Witness ==
  /\ pc = "eda"
  /\ Len(merged_df.rows) = 3
  /\ merged_df.rows[1] = merged_df.rows[3]
  /\ merged_df.rows[1] # merged_df.rows[2]
  /\ RemovedCount = 1

\* C11: in the frame clean_data returns, a record with SalesAmount = 0 has a
\* missing ProfitMargin (neither a number nor an infinity), whatever its
\* TotalProductCost, and a record with SalesAmount other than 0 has
\* ProfitMargin = (SalesAmount - TotalProductCost) / SalesAmount * 100.
C11_ZeroSalesMarginUndefined ==
  pc = "eda" =>
    \A i \in 1..Len(cleaned_df.rows) :
      LET r == cleaned_df.rows[i]
          s == r["SalesAmount"]
          k == r["TotalProductCost"]
      IN /\ s = 0 => r["ProfitMargin"].kind = "nan"
         /\ (~IsNull(s) /\ s # 0 /\ ~IsNull(k)) =>
              /\ r["ProfitMargin"].kind = "num"
              /\ r["ProfitMargin"].num * s = 100 * (s - k) * r["ProfitMargin"].den

\* the derived columns of clean_data with the source columns each one needs
DerivedFrom ==
  [OrderYear |-> {"OrderDate"}, OrderMonth |-> {"OrderDate"},
   OrderQuarter |-> {"OrderDate"}, OrderDayOfWeek |-> {"OrderDate"},
   DeliveryDays |-> {"OrderDate", "ShipDate"},
   IncomeSegment |-> {"YearlyIncome"}, Age |-> {"BirthDate"},
   Profit |-> {"SalesAmount", "TotalProductCost"},
   ProfitMargin |-> {"SalesAmount", "TotalProductCost"}]

\* C12: for every subset of the source columns, clean_data completes without
\* error; each derived column is in the result exactly when all of its source
\* columns are in the input, and each product text column that is in the
\* input has its missing values replaced by the placeholder.
C12_EveryColumnSubsetCleans ==
  pc \in {"eda", "raised"} =>
    /\ pc = "eda"
    /\ \A c \in DOMAIN DerivedFrom :
         c \in Columns(cleaned_df.rows)
           <=> DerivedFrom[c] \subseteq Columns(merged_df.rows)
    /\ \A c \in {"Color", "SubCategory", "Category"}
               \cap Columns(merged_df.rows) :
         \A i \in 1..Len(cleaned_df.rows) : ~IsNull(cleaned_df.rows[i][c])

ProductKeysOf(rows) == {rows[i]["ProductKey"] : i \in 1..Len(rows)} \ {Null}

\* C13: the result of perform_abc_xyz_analysis holds exactly one profile for
\* every distinct ProductKey of the enriched dataset, on the normal and on the
\* degraded XYZ path: no product is lost and none appears twice.
C13_OneProfilePerProduct ==
  pc = "conclusion" =>
    /\ ProductKeysOf(abc_xyz_results.rows) = ProductKeysOf(cleaned_df.rows)
    /\ \A i, j \in 1..Len(abc_xyz_results.rows) :
         abc_xyz_results.rows[i]["ProductKey"]
           = abc_xyz_results.rows[j]["ProductKey"] => i = j

\* the run has passed extract_insights and perform_rfm_analysis returned nothing
RfmStageRaised == pc = "raised" /\ insights # <<>> /\ rfm_results.none

\* C14: perform_rfm_analysis does not crash when there are fewer than 5
\* distinct customers or the quintile binning cannot form 5 bins: a run of
\* main that reaches the RFM stage never stops there, it goes on to the
\* ABC-XYZ analysis with an RFM result in hand.
C14_RfmDegradesWithoutCrash ==
  /\ ~RfmStageRaised
  /\ pc \in {"abc_xyz", "conclusion", "done"} => ~rfm_results.none

\* C15: in a scored population Recency is scored inversely and Frequency and
\* Monetary directly: a strictly smaller Recency never has the smaller
\* R_Score, the most recent customer scores 5 and the least recent 1; a
\* strictly larger Frequency (Monetary) never has the smaller F_Score
\* (M_Score), and of two customers equal in Frequency (Monetary) the one
\* occurring first never has the larger score.
C15_ScoringDirection ==
  pc = "abc_xyz" =>
    LET p == rfm_results.rows
        n == Len(p)
    IN /\ \A i, j \in 1..n :
            /\ p[i]["Recency"] < p[j]["Recency"]
                 => p[i]["R_Score"] >= p[j]["R_Score"]
            /\ p[i]["Frequency"] > p[j]["Frequency"]
                 => p[i]["F_Score"] >= p[j]["F_Score"]
            /\ p[i]["Monetary"] > p[j]["Monetary"]
                 => p[i]["M_Score"] >= p[j]["M_Score"]
            /\ (i < j /\ p[i]["Frequency"] = p[j]["Frequency"])
                 => p[i]["F_Score"] <= p[j]["F_Score"]
            /\ (i < j /\ p[i]["Monetary"] = p[j]["Monetary"])
                 => p[i]["M_Score"] <= p[j]["M_Score"]
       /\ \A i \in 1..n :
            /\ (\A j \in 1..n : p[i]["Recency"] <= p[j]["Recency"])
                 => p[i]["R_Score"] = 5
            /\ (\A j \in 1..n : p[i]["Recency"] >= p[j]["Recency"])
                 => p[i]["R_Score"] = 1

\* five scored customers: the most recent scores 5 and another scores lower
\* on a larger Recency, all are equal in Frequency and in Monetary and are
\* scored 1 to 5 in order of occurrence
C15_Witness ==
  /\ pc = "abc_xyz"
  /\ Len(rfm_results.rows) = 5
  /\ \E i, j \in 1..5 :
       /\ rfm_results.rows[i]["Recency"] < rfm_results.rows[j]["Recency"]
       /\ rfm_results.rows[i]["R_Score"] > rfm_results.rows[j]["R_Score"]
  /\ \A i \in 1..5 :
       /\ rfm_results.rows[i]["Monetary"] = 100
       /\ rfm_results.rows[i]["Frequency"] = 1
       /\ rfm_results.rows[i]["M_Score"] = i
       /\ rfm_results.rows[i]["F_Score"] = i

====
